---- MODULE Spec2Model ----
(***************************************************************************)
(* Model of SimplifiedVehicleAI (src/matrix_publisher.py): the session     *)
(* state, the bus-event handler, the learning timer, the break-reminder    *)
(* timer and the recommendation loop.                                      *)
(*                                                                         *)
(* Python's None is the empty sequence <<>> and a present value v is the   *)
(* one-element sequence <<v>>, so that "value is None", "value == 0" and   *)
(* "value is a non-zero number" stay three different cases.  The text of a *)
(* recommendation (random.choice over templates) is left out: a           *)
(* recommendation is its action and its value.                             *)
(*                                                                         *)
(* The program takes no lock.  Four kinds of thread run together: the main *)
(* thread (__init__, then run), the bus thread (on_message), the two Timer *)
(* threads (complete_learning, send_break_reminder) and the loop thread    *)
(* (recommendation_loop).  Every action below is one step of one thread    *)
(* and holds one access to the state the threads share, so that another    *)
(* thread can come between any two accesses, as in the code.               *)
(***************************************************************************)
EXTENDS Integers, Sequences, FiniteSets, TLC

VARIABLES
    ipc,                       \* main thread: index in InitLines of the next statement of __init__
    action_history,            \* self.action_history: deque(maxlen=50) of entries
    arrived,                   \* history variable: every event appended so far, in arrival order
    car_state,                 \* self.car_state
    driver_preferences,        \* self.driver_preferences
    session_start,             \* self.session_start (None or an instant)
    learning_started,          \* self.learning_started
    learning_complete,         \* self.learning_complete
    recommendations_sent,      \* self.recommendations_sent
    last_recommendation_time,  \* self.last_recommendation_time (None or an instant)
    break_reminder_sent,       \* self.break_reminder_sent
    now,                       \* datetime.now(), in seconds
    hpc,                       \* position of the bus thread inside handle_vehicle_action,
                               \* "stopped" once run() has stopped it,
                               \* "disconnected" once run() has left the bus and
                               \* "exited" once the process has ended
    hev,                       \* the event handle_vehicle_action has read out of the last
                               \* message it was called with (its locals action and value)
    received,                  \* history variable: messages on_message was called with
    errors,                    \* messages on_message gave up on ("Error processing message")
    hret,                      \* how the last call of on_message ended: "none", "returned", "raised"
    ltimer,                    \* the learning Timer and its callback:
                               \* "unarmed", "armed", "complete", "fired"
    rpc,                       \* per delivery of the reminder expiry: position in send_break_reminder
    lpc,                       \* position of the recommendation-loop thread
    recent_action_set,         \* local of generate_recommendations
    recommendations,           \* local of generate_recommendations / of the loop
    gi,                        \* the rule generate_recommendations evaluates next
    gk,                        \* the read of the shared state that rule makes next
    held,                      \* the preference the test of the rule has read (None outside it)
    current_hour,              \* local of generate_recommendations
    delivered,                 \* loop messages the bus accepted
    wake,                      \* the instant the loop thread's time.sleep returns
    break_reminders_published  \* break-reminder messages the bus accepted

vars == << ipc, action_history, arrived, car_state, driver_preferences, session_start,
           learning_started, learning_complete, recommendations_sent,
           last_recommendation_time, break_reminder_sent, now, hpc, hev, received,
           errors, hret, ltimer, rpc,
           lpc, recent_action_set, recommendations, gi, gk, held, current_hour,
           delivered, wake, break_reminders_published >>

sessionVars == << session_start, learning_started, learning_complete >>
storeVars == << action_history, arrived, car_state, driver_preferences >>
handlerVars == << hpc, hev, received, errors, hret >>
loopVars == << lpc, recent_action_set, recommendations, gi, gk, held, current_hour,
               recommendations_sent, last_recommendation_time, delivered, wake >>
reminderVars == << rpc, break_reminder_sent, break_reminders_published >>

(***************************************************************************)
(* Program constants.                                                      *)
(***************************************************************************)
LEARNING_PERIOD == 30
RECOMMENDATION_INTERVAL == 20
BREAK_REMINDER_TIME == 200
MAX_RECOMMENDATIONS_PER_SESSION == 50
HISTORY_MAXLEN == 50
LEARN_MIN_HISTORY == 3
RECENT_WINDOW == 5
SUPPRESS_WINDOW == 3
COMMON_MIN_COUNT == 2
TOP_RECOMMENDATIONS == 2
TEMPERATURE_MAX == 30
TEMPERATURE_MIN == 16
TEMPERATURE_STEP == 1
VOLUME_MAX == 100
VOLUME_MIN == 0
VOLUME_STEP == 10
BRIGHTNESS_MAX == 100
BRIGHTNESS_MIN == 0
BRIGHTNESS_STEP == 20
EVENING_HOUR == 18
MORNING_HOUR == 6

(***************************************************************************)
(* Bounds of the model.                                                    *)
(***************************************************************************)
MaxHandlerEvents == 3   \* events of a run of SpecHandler
MaxBurstEvents == 3     \* freely chosen events at the start of a run of SpecLong
MaxLongEvents == 54     \* events of a run of SpecLong
MaxEvents == 3          \* events of a run of Spec
MaxSent == 1            \* loop messages of a run of Spec
MaxCapEvents == 3       \* events of a run of SpecCap
MaxThreadEvents == 3    \* events of a run of SpecThreads
MaxThreadSent == 1      \* loop messages of a run of SpecThreads
MaxDupEvents == 3       \* events of a run of SpecDup
MaxDupSent == 1         \* loop messages of a run of SpecDup
MaxDeliveries == 2      \* deliveries of the reminder expiry
MaxFailures == 1        \* failed publishes of loop messages
MaxGenEvents == 3       \* events of a run of SpecGen
MaxGenSent == 1         \* loop messages of a run of SpecGen
MaxShutdownEvents == 3  \* events of a run of SpecShutdown
MaxShutdownSent == 1    \* loop messages of a run of SpecShutdown
MaxMessageEvents == 4   \* events of a run of SpecMessages
MaxErrors == 3          \* messages given up on in a run of SpecMessages
MaxTimedEvents == 3     \* events of a run of SpecTimed
MaxTimedSent == 2       \* loop messages of a run of SpecTimed
MaxFairEvents == 3      \* events of a run of SpecFair
MaxFairSent == 1        \* loop messages of a run of SpecFair
MaxTime == 50           \* the last instant of a run of SpecTimed

None == << >>
Some(v) == << v >>

Min(a, b) == IF a < b THEN a ELSE b
Max(a, b) == IF a > b THEN a ELSE b

\* Python truthiness of an optional number: None and 0 are false.
Truthy(value) == value # None /\ value[1] # 0

KnownActions ==
    { "climate_turn_on", "climate_turn_off", "climate_set_temperature",
      "climate_increase", "climate_decrease",
      "infotainment_play", "infotainment_stop", "infotainment_set_volume",
      "infotainment_volume_up", "infotainment_volume_down",
      "lights_turn_on", "lights_turn_off", "lights_dim", "lights_brighten",
      "seats_heat_on", "seats_heat_off", "seats_adjust" }

SetActions == { "climate_set_temperature", "infotainment_set_volume", "seats_adjust" }

UnknownAction == "horn_honk"

Event(a, v) == [action |-> a, value |-> v]

(***************************************************************************)
(* Car State Store: update_car_state.                                      *)
(***************************************************************************)
ClimateIncrease(t) == Min(t + TEMPERATURE_STEP, TEMPERATURE_MAX)
ClimateDecrease(t) == Max(t - TEMPERATURE_STEP, TEMPERATURE_MIN)
VolumeUp(v) == Min(v + VOLUME_STEP, VOLUME_MAX)
VolumeDown(v) == Max(v - VOLUME_STEP, VOLUME_MIN)
LightsDimUnclamped(b) == b - BRIGHTNESS_STEP
LightsDim(b) == Max(b - BRIGHTNESS_STEP, BRIGHTNESS_MIN)
LightsBrighten(b) == Min(b + BRIGHTNESS_STEP, BRIGHTNESS_MAX)

InitialCarState ==
    [ climate_on |-> FALSE, temperature |-> 22,
      infotainment_on |-> FALSE, volume |-> 50,
      lights_on |-> FALSE, brightness |-> 80,
      seats_heated |-> FALSE, seat_position |-> 5 ]

UpdateCarState(cs, action, value) ==
    IF action = "climate_turn_on" THEN [cs EXCEPT !.climate_on = TRUE]
    ELSE IF action = "climate_turn_off" THEN [cs EXCEPT !.climate_on = FALSE]
    ELSE IF action = "climate_set_temperature" /\ Truthy(value)
        THEN [cs EXCEPT !.temperature = value[1]]
    ELSE IF action = "climate_increase"
        THEN [cs EXCEPT !.temperature = ClimateIncrease(cs.temperature)]
    ELSE IF action = "climate_decrease"
        THEN [cs EXCEPT !.temperature = ClimateDecrease(cs.temperature)]
    ELSE IF action = "infotainment_play" THEN [cs EXCEPT !.infotainment_on = TRUE]
    ELSE IF action = "infotainment_stop" THEN [cs EXCEPT !.infotainment_on = FALSE]
    ELSE IF action = "infotainment_set_volume" /\ Truthy(value)
        THEN [cs EXCEPT !.volume = value[1]]
    ELSE IF action = "infotainment_volume_up"
        THEN [cs EXCEPT !.volume = VolumeUp(cs.volume)]
    ELSE IF action = "infotainment_volume_down"
        THEN [cs EXCEPT !.volume = VolumeDown(cs.volume)]
    ELSE IF action = "lights_turn_on" THEN [cs EXCEPT !.lights_on = TRUE]
    ELSE IF action = "lights_turn_off" THEN [cs EXCEPT !.lights_on = FALSE]
    ELSE IF action = "lights_dim"
        THEN [cs EXCEPT !.brightness = LightsDim(cs.brightness)]
    ELSE IF action = "lights_brighten"
        THEN [cs EXCEPT !.brightness = LightsBrighten(cs.brightness)]
    ELSE IF action = "seats_heat_on" THEN [cs EXCEPT !.seats_heated = TRUE]
    ELSE IF action = "seats_heat_off" THEN [cs EXCEPT !.seats_heated = FALSE]
    ELSE IF action = "seats_adjust" /\ Truthy(value)
        THEN [cs EXCEPT !.seat_position = value[1]]
    ELSE cs

\* update_car_state reads or writes self.car_state: one of its branches is taken.
TouchesCarState(action, value) ==
    action \in KnownActions /\ (action \in SetActions => Truthy(value))

(***************************************************************************)
(* Action History: deque(maxlen=50).append.                                *)
(***************************************************************************)
DequeAppendDropNewest(h, e) ==
    IF Len(h) >= HISTORY_MAXLEN THEN h ELSE Append(h, e)

DequeAppend(h, e) ==
    IF Len(h) >= HISTORY_MAXLEN THEN Append(Tail(h), e) ELSE Append(h, e)

\* The last n elements of s (s[-n:]).
LastN(s, n) == SubSeq(s, Max(1, Len(s) - n + 1), Len(s))

\* The action names of a history, in order.
Actions(h) == [i \in 1..Len(h) |-> h[i].action]

Range(s) == { s[i] : i \in 1..Len(s) }

(***************************************************************************)
(* Preference Learner: learn_preferences.                                  *)
(***************************************************************************)
InitialPreferences ==
    [ preferred_temperature |-> 22, preferred_volume |-> 50,
      preferred_seat_position |-> 5, preferred_brightness |-> 80,
      likes_music |-> FALSE, likes_warm_seats |-> FALSE,
      common_actions |-> << >>, action_sequences |-> << >> ]

\* [act['value'] for act in history if act['action'] == a and act['value']]
ValuedEntries(h, a) ==
    LET keep(e) == e.action = a /\ Truthy(e.value)
        kept == SelectSeq(h, keep)
    IN  [i \in 1..Len(kept) |-> kept[i].value[1]]

RECURSIVE Sum(_)
Sum(s) == IF s = << >> THEN 0 ELSE s[1] + Sum(Tail(s))

\* sum(xs) // len(xs): Python's floor division, which is TLA+'s \div.
Mean(xs) == Sum(xs) \div Len(xs)

Count(h, a) == Cardinality({ i \in 1..Len(h) : h[i].action = a })

\* Counter(actions).items() keeps first-occurrence order.
CommonActions(h) ==
    LET acts == Actions(h)
        firsts == { i \in 1..Len(acts) : \A j \in 1..(i - 1) : acts[j] # acts[i] }
        first(i) == i \in firsts /\ Count(h, acts[i]) >= COMMON_MIN_COUNT
        idx == SelectSeq([i \in 1..Len(acts) |-> i], first)
    IN  [k \in 1..Len(idx) |-> acts[idx[k]]]

LearnFlagStale(flag, h, a) == flag
LearnFlagReset(flag, h, a) == a \in Range(Actions(h))
LearnFlag(flag, h, a) == IF a \in Range(Actions(h)) THEN TRUE ELSE flag

LearnMeanOrZero(old, h, a) ==
    IF ValuedEntries(h, a) # << >> THEN Mean(ValuedEntries(h, a)) ELSE 0

LearnMean(old, h, a) ==
    IF ValuedEntries(h, a) # << >> THEN Mean(ValuedEntries(h, a)) ELSE old

\* An action that is a JSON array or object instead of a string: it goes into the
\* history like any other, and Counter(actions) raises TypeError on it.
UnhashableAction == "[]"

\* learn_preferences raises, at Counter(actions), after the means and the flags.
LearnRaises(h) ==
    Len(h) >= LEARN_MIN_HISTORY /\ UnhashableAction \in Range(Actions(h))

\* if len(self.action_history) < 3: return
LearnReturnsEarlyBelowTwo(h) == Len(h) < LEARN_MIN_HISTORY - 1

LearnReturnsEarly(h) == Len(h) < LEARN_MIN_HISTORY

LearnCommonMerging(old, h) ==
    LET kept(a) == a \notin Range(old)
    IN  old \o SelectSeq(CommonActions(h), kept)

\* common_actions = [action for action, count in Counter(actions).items() if count >= 2]
LearnCommon(old, h) == CommonActions(h)

\* The statements of learn_preferences that write a preference, in the order of the
\* code, each named after the field it writes.
LearnFields ==
    << "preferred_temperature", "preferred_volume", "preferred_seat_position",
       "likes_music", "likes_warm_seats", "common_actions" >>

\* The action whose entries a statement of learn_preferences looks for.
LearnSource(field) ==
    CASE field = "preferred_temperature" -> "climate_set_temperature"
      [] field = "preferred_volume" -> "infotainment_set_volume"
      [] field = "preferred_seat_position" -> "seats_adjust"
      [] field = "likes_music" -> "infotainment_play"
      [] field = "likes_warm_seats" -> "seats_heat_on"
      [] field = "common_actions" -> ""

\* The statement assigns to its field: its if holds (the last one has none).
LearnAssigns(field, h) ==
    CASE field \in { "preferred_temperature", "preferred_volume", "preferred_seat_position" }
             -> ValuedEntries(h, LearnSource(field)) # << >>
      [] field \in { "likes_music", "likes_warm_seats" }
             -> LearnSource(field) \in Range(Actions(h))
      [] field = "common_actions" -> TRUE

\* The value the statement leaves in its field.
LearnValue(field, old, h) ==
    CASE field \in { "preferred_temperature", "preferred_volume", "preferred_seat_position" }
             -> LearnMean(old, h, LearnSource(field))
      [] field \in { "likes_music", "likes_warm_seats" }
             -> LearnFlag(old, h, LearnSource(field))
      [] field = "common_actions" -> LearnCommon(old, h)

\* learn_preferences from the statement of LearnFields[k] on, with no other thread
\* in between; Counter raises in the last statement, which then assigns nothing.
RECURSIVE LearnFrom(_, _, _)
LearnFrom(k, prefs, h) ==
    IF k > Len(LearnFields) THEN prefs
    ELSE IF LearnFields[k] = "common_actions" /\ LearnRaises(h) THEN prefs
    ELSE LearnFrom(k + 1,
                   [prefs EXCEPT ![LearnFields[k]] = LearnValue(LearnFields[k], @, h)],
                   h)

\* One uninterrupted call of learn_preferences.
LearnPreferences(prefs, h) ==
    IF LearnReturnsEarly(h) THEN prefs ELSE LearnFrom(1, prefs, h)

(***************************************************************************)
(* Recommendation Generator: generate_recommendations.                     *)
(***************************************************************************)
Rec(a, v) == [action |-> a, value |-> v]

\* set(recent_actions[-3:]) with recent_actions the names of the last 5 entries.
RecentActionSet(h) == Range(LastN(LastN(Actions(h), RECENT_WINDOW), SUPPRESS_WINDOW))

\* datetime.now().hour: the hours on both sides of the two comparisons.
Hours == { 6, 7, 17, 18 }

IsEveningStrict(hour) == hour > EVENING_HOUR \/ hour < MORNING_HOUR

IsEvening(hour) == hour >= EVENING_HOUR \/ hour <= MORNING_HOUR

NumRules == 7

ClimateRuleInverted(cs, recent) == cs.climate_on /\ "climate_turn_on" \notin recent
ClimateRule(cs, recent) == ~cs.climate_on /\ "climate_turn_on" \notin recent

\* The outcome of one step of a rule: what it appends to the list, the rule and the
\* read that come next, and the preference it holds on to.
RuleDone(i, recs) == [recs |-> recs, i |-> i + 1, k |-> 1, held |-> None]
RuleOn(i, k, h) == [recs |-> << >>, i |-> i, k |-> k, held |-> h]

\* Read 1 of a rule that asks for a switch of the car state to be on, or off.
SwitchStep(i, asked) == IF asked THEN RuleOn(i, 2, None) ELSE RuleDone(i, << >>)

\* The other reads of a rule that compares a preference with the car state
\* (temperature, volume, seat position): read 2 is the preference of the test, read 3
\* the field of the car state it is compared with, followed by the look into the
\* recent actions, and read 4 the preference again, for the value of the
\* recommendation.
CompareStep(i, k, h, pref, field, action, cs, prefs, recent) ==
    CASE k = 2 -> RuleOn(i, 3, Some(prefs[pref]))
      [] k = 3 -> IF h[1] # cs[field] /\ action \notin recent
                  THEN RuleOn(i, 4, None) ELSE RuleDone(i, << >>)
      [] k = 4 -> RuleDone(i, << Rec(action, Some(prefs[pref])) >>)

\* Read 2 of a rule that recommends what the driver likes (music, warm seats): the
\* liking, followed by the look into the recent actions.
LikingStep(i, liking, action, prefs, recent) ==
    IF prefs[liking] /\ action \notin recent
    THEN RuleDone(i, << Rec(action, None) >>) ELSE RuleDone(i, << >>)

\* The lighting rule: the hour, then one read of lights_on.
LightingStep(i, cs, recent, hour) ==
    IF IsEvening(hour) THEN
        IF ~cs.lights_on /\ "lights_turn_on" \notin recent
        THEN RuleDone(i, << Rec("lights_turn_on", None) >>) ELSE RuleDone(i, << >>)
    ELSE
        IF cs.lights_on /\ "lights_turn_off" \notin recent
        THEN RuleDone(i, << Rec("lights_turn_off", None) >>) ELSE RuleDone(i, << >>)

\* Read k of rule i, on the car state and the preferences as they are at that read.
\* The rules in the order of the code: climate on, temperature, music, volume,
\* lighting, seat heat, seat position (which asks for no switch and starts at read 2).
RuleStep(i, k, h, cs, prefs, recent, hour) ==
    CASE i = 1 ->
             RuleDone(1, IF ClimateRule(cs, recent)
                         THEN << Rec("climate_turn_on", None) >> ELSE << >>)
      [] i = 2 ->
             IF k = 1 THEN SwitchStep(2, cs.climate_on)
             ELSE CompareStep(2, k, h, "preferred_temperature", "temperature",
                              "climate_set_temperature", cs, prefs, recent)
      [] i = 3 ->
             IF k = 1 THEN SwitchStep(3, ~cs.infotainment_on)
             ELSE LikingStep(3, "likes_music", "infotainment_play", prefs, recent)
      [] i = 4 ->
             IF k = 1 THEN SwitchStep(4, cs.infotainment_on)
             ELSE CompareStep(4, k, h, "preferred_volume", "volume",
                              "infotainment_set_volume", cs, prefs, recent)
      [] i = 5 -> LightingStep(5, cs, recent, hour)
      [] i = 6 ->
             IF k = 1 THEN SwitchStep(6, ~cs.seats_heated)
             ELSE LikingStep(6, "likes_warm_seats", "seats_heat_on", prefs, recent)
      [] i = 7 ->
             CompareStep(7, Max(k, 2), h, "preferred_seat_position", "seat_position",
                         "seats_adjust", cs, prefs, recent)

\* What rule i appends to the list, one recommendation or nothing, when no other
\* thread writes between its reads.
RECURSIVE RuleFrom(_, _, _, _, _, _, _)
RuleFrom(i, k, h, cs, prefs, recent, hour) ==
    LET r == RuleStep(i, k, h, cs, prefs, recent, hour)
    IN  IF r.i # i THEN r.recs ELSE RuleFrom(i, r.k, r.held, cs, prefs, recent, hour)

RuleRecs(i, cs, prefs, recent, hour) == RuleFrom(i, 1, None, cs, prefs, recent, hour)

TopRecommendationsLast(recs) ==
    SubSeq(recs, Max(1, Len(recs) - TOP_RECOMMENDATIONS + 1), Len(recs))

\* recommendations[:2] if recommendations else None (None is the empty sequence).
TopRecommendations(recs) == SubSeq(recs, 1, Min(Len(recs), TOP_RECOMMENDATIONS))

RECURSIVE RulesFrom(_, _, _, _, _)
RulesFrom(i, cs, prefs, recent, hour) ==
    IF i > NumRules THEN << >>
    ELSE RuleRecs(i, cs, prefs, recent, hour) \o RulesFrom(i + 1, cs, prefs, recent, hour)

\* One uninterrupted pass of generate_recommendations.
GenerateRecommendations(cs, prefs, h, hour) ==
    TopRecommendations(RulesFrom(1, cs, prefs, RecentActionSet(h), hour))

(***************************************************************************)
(* The main thread: SimplifiedVehicleAI.__init__.  setup_mqtt (line 28)    *)
(* connects and starts the bus thread before any attribute of the session  *)
(* exists, so a message can be handled while the constructor is still      *)
(* running.  The initial state is the one in which setup_mqtt has          *)
(* returned; each statement of the constructor that creates an attribute   *)
(* is a step.  A variable of an attribute that does not exist yet holds    *)
(* the value its statement will store and is read by no step: a reader     *)
(* tests Exists first and raises AttributeError.                           *)
(***************************************************************************)
NoEvent == Event("", None)

\* The phase of the session, as run() prints it: Waiting, Learning, Ready.
Phase ==
    IF learning_complete THEN "Active"
    ELSE IF learning_started THEN "Learning" ELSE "Idle"
Deliveries == 1..MaxDeliveries

\* The lines of the statements of __init__ after setup_mqtt, and the line that
\* follows them.
InitLines == << 31, 32, 33, 34, 35, 36, 37, 40, 52, 64, 71, 114 >>

\* The line of __init__ that creates an attribute.
AttrLine(attr) ==
    CASE attr = "session_start" -> 31
      [] attr = "learning_started" -> 32
      [] attr = "learning_complete" -> 33
      [] attr = "action_history" -> 34
      [] attr = "recommendations_sent" -> 35
      [] attr = "last_recommendation_time" -> 36
      [] attr = "break_reminder_sent" -> 37
      [] attr = "car_state" -> 40
      [] attr = "driver_preferences" -> 52
      [] attr = "morning_greetings" -> 64
      [] attr = "suggestions" -> 71

\* The main thread has run the statement that creates the attribute.
Exists(attr) == InitLines[ipc] > AttrLine(attr)

\* Every attribute exists.
Constructed == ipc = Len(InitLines)

Init ==
    /\ ipc = 1
    /\ action_history = << >>
    /\ arrived = << >>
    /\ car_state = InitialCarState
    /\ driver_preferences = InitialPreferences
    /\ session_start = None
    /\ learning_started = FALSE
    /\ learning_complete = FALSE
    /\ recommendations_sent = 0
    /\ last_recommendation_time = None
    /\ break_reminder_sent = FALSE
    /\ now = 0
    /\ hpc = "idle"
    /\ hev = NoEvent
    /\ received = 0
    /\ errors = 0
    /\ hret = "none"
    /\ ltimer = "unarmed"
    /\ rpc = [d \in Deliveries |-> "unarmed"]
    /\ lpc = "none"
    /\ recent_action_set = {}
    /\ recommendations = << >>
    /\ gi = 1
    /\ gk = 1
    /\ held = None
    /\ current_hour = 0
    /\ delivered = 0
    /\ wake = 0
    /\ break_reminders_published = 0

\* The next statement of __init__: it stores the initial value of its attribute.
Construct ==
    /\ ipc < Len(InitLines)
    /\ ipc' = ipc + 1
    /\ session_start' = IF InitLines[ipc] = 31 THEN None ELSE session_start
    /\ learning_started' = IF InitLines[ipc] = 32 THEN FALSE ELSE learning_started
    /\ learning_complete' = IF InitLines[ipc] = 33 THEN FALSE ELSE learning_complete
    /\ action_history' = IF InitLines[ipc] = 34 THEN << >> ELSE action_history
    /\ recommendations_sent' = IF InitLines[ipc] = 35 THEN 0 ELSE recommendations_sent
    /\ last_recommendation_time' =
           IF InitLines[ipc] = 36 THEN None ELSE last_recommendation_time
    /\ break_reminder_sent' = IF InitLines[ipc] = 37 THEN FALSE ELSE break_reminder_sent
    /\ car_state' = IF InitLines[ipc] = 40 THEN InitialCarState ELSE car_state
    /\ driver_preferences' =
           IF InitLines[ipc] = 52 THEN InitialPreferences ELSE driver_preferences
    /\ UNCHANGED << arrived, now, handlerVars, ltimer, rpc, break_reminders_published,
                    lpc, recent_action_set, recommendations, gi, gk, held, current_hour,
                    delivered, wake >>

(***************************************************************************)
(* The bus thread: on_message and handle_vehicle_action, statement by      *)
(* statement.  hpc is the statement the thread runs next.                  *)
(***************************************************************************)
\* An exception reaches the except of on_message: the message is given up on.
Raises ==
    /\ errors' = errors + 1
    /\ hret' = "raised"
    /\ hpc' = "idle"

\* handle_vehicle_action returns.
Returns ==
    /\ hret' = "returned"
    /\ hpc' = "idle"
    /\ UNCHANGED errors

\* The handler goes on to its next statement.
GoesOn(pos) ==
    /\ hpc' = pos
    /\ UNCHANGED << errors, hret >>

\* Lines 164-175: the event is read out of the message and appended to the history.
HandlerAppend(ev) ==
    /\ hpc = "idle"
    /\ received' = received + 1
    /\ hev' = ev
    /\ IF Exists("action_history")
       THEN /\ action_history' = DequeAppend(action_history, ev)
            /\ arrived' = Append(arrived, ev)
            /\ hpc' = "update"
            /\ UNCHANGED << errors, hret >>
       ELSE /\ Raises
            /\ UNCHANGED << action_history, arrived >>
    /\ UNCHANGED << ipc, car_state, driver_preferences, sessionVars, now, ltimer,
                    loopVars, reminderVars >>

\* on_message: a payload is text that is not JSON ("text"), JSON that is not an object
\* ("array": json.loads succeeds and action_data.get raises before anything is written),
\* or a JSON object, which handle_vehicle_action takes as an event.
Payload(kind, ev) == [kind |-> kind, event |-> ev]

OnMessage(p) ==
    IF p.kind = "object"
    THEN HandlerAppend(p.event)
    ELSE /\ hpc = "idle"
         /\ received' = received + 1
         /\ hev' = NoEvent
         /\ Raises
         /\ UNCHANGED << ipc, storeVars, sessionVars, now, ltimer, loopVars,
                         reminderVars >>

\* Line 178: update_car_state.
HandlerUpdate ==
    /\ hpc = "update"
    /\ IF TouchesCarState(hev.action, hev.value) /\ ~Exists("car_state")
       THEN Raises /\ UNCHANGED car_state
       ELSE /\ car_state' = UpdateCarState(car_state, hev.action, hev.value)
            /\ GoesOn("start")
    /\ UNCHANGED << ipc, action_history, arrived, driver_preferences, sessionVars, now,
                    hev, received, ltimer, loopVars, reminderVars >>

LearningNotStartedEver == TRUE

\* if not self.learning_started
LearningNotStarted == ~learning_started

\* Lines 181 and 226: the test, and the first statement of start_learning.
HandlerStart ==
    /\ hpc = "start"
    /\ IF LearningNotStarted
       THEN learning_started' = TRUE /\ GoesOn("session_start")
       ELSE UNCHANGED learning_started /\ GoesOn("learn")
    /\ UNCHANGED << ipc, storeVars, session_start, learning_complete, now, hev, received,
                    ltimer, loopVars, reminderVars >>

\* Line 227.
HandlerSessionStart ==
    /\ hpc = "session_start"
    /\ session_start' = Some(now)
    /\ GoesOn("learning_timer")
    /\ UNCHANGED << ipc, storeVars, learning_started, learning_complete, now, hev, received,
                    ltimer, loopVars, reminderVars >>

\* threading.Timer(...).start()
TimerStart(timer) == "armed"

\* Line 232.
HandlerLearningTimer ==
    /\ hpc = "learning_timer"
    /\ ltimer' = TimerStart(ltimer)
    /\ GoesOn("reminder_timer")
    /\ UNCHANGED << ipc, storeVars, sessionVars, now, hev, received, loopVars, reminderVars >>

\* Line 235.
HandlerReminderTimer ==
    /\ hpc = "reminder_timer"
    /\ rpc' = [rpc EXCEPT ![1] = TimerStart(@)]
    /\ GoesOn("learn")
    /\ UNCHANGED << ipc, storeVars, sessionVars, now, hev, received, ltimer, loopVars,
                    break_reminder_sent, break_reminders_published >>

\* Lines 185 and 271-274: learn_preferences is entered and returns on a short history.
HandlerLearn ==
    /\ hpc = "learn"
    /\ IF LearnReturnsEarly(action_history) THEN Returns ELSE GoesOn(LearnFields[1])
    /\ UNCHANGED << ipc, storeVars, sessionVars, now, hev, received, ltimer, loopVars,
                    reminderVars >>

\* Lines 276-308: the next statement of learn_preferences that writes a preference.
\* It raises when it assigns and self.driver_preferences does not exist, and, in the
\* last one, when Counter meets an action it cannot hash.
HandlerLearnField ==
    \E k \in 1..Len(LearnFields) :
        /\ hpc = LearnFields[k]
        /\ IF \/ LearnAssigns(LearnFields[k], action_history)
                    /\ ~Exists("driver_preferences")
              \/ LearnFields[k] = "common_actions" /\ LearnRaises(action_history)
           THEN Raises /\ UNCHANGED driver_preferences
           ELSE /\ driver_preferences' =
                       [driver_preferences EXCEPT
                            ![LearnFields[k]] =
                                LearnValue(LearnFields[k], @, action_history)]
                /\ IF k < Len(LearnFields) THEN GoesOn(LearnFields[k + 1]) ELSE Returns
        /\ UNCHANGED << ipc, action_history, arrived, car_state, sessionVars, now,
                        hev, received, ltimer, loopVars, reminderVars >>

\* The statements of the handler after the append.
HandlerSteps ==
    \/ HandlerUpdate
    \/ HandlerStart
    \/ HandlerSessionStart
    \/ HandlerLearningTimer
    \/ HandlerReminderTimer
    \/ HandlerLearn
    \/ HandlerLearnField

(***************************************************************************)
(* The learning timer: complete_learning, on its Timer thread, sets the    *)
(* flag and starts the loop thread.  A timer expires LEARNING_PERIOD or    *)
(* BREAK_REMINDER_TIME seconds after the first event; the constructor,     *)
(* which only assigns, has returned long before.                           *)
(***************************************************************************)
CompleteLearningFlagLate ==
    /\ ltimer = "armed"
    /\ Constructed
    /\ ltimer' = "complete"
    /\ UNCHANGED << ipc, storeVars, sessionVars, now, handlerVars, loopVars,
                    reminderVars >>

\* Line 239.
CompleteLearning ==
    /\ ltimer = "armed"
    /\ Constructed
    /\ learning_complete' = TRUE
    /\ ltimer' = "complete"
    /\ UNCHANGED << ipc, storeVars, session_start, learning_started, now, handlerVars,
                    loopVars, reminderVars >>

\* Lines 243 and 267: the loop thread is started.
StartRecommendationLoop ==
    /\ ltimer = "complete"
    /\ ltimer' = "fired"
    /\ lpc' = "while"
    /\ UNCHANGED << ipc, storeVars, sessionVars, now, handlerVars,
                    recent_action_set, recommendations, gi, gk, held, current_hour,
                    recommendations_sent, last_recommendation_time, delivered,
                    wake, reminderVars >>

LearningTimerSteps == CompleteLearning \/ StartRecommendationLoop

(***************************************************************************)
(* The recommendation loop: start_recommendation_loop.recommendation_loop. *)
(***************************************************************************)
LoopContinuesInclusive ==
    learning_complete /\ recommendations_sent <= MAX_RECOMMENDATIONS_PER_SESSION
LoopContinues ==
    learning_complete /\ recommendations_sent < MAX_RECOMMENDATIONS_PER_SESSION

\* time.sleep(secs) returns at now + secs at the earliest.
SleepUntilAtOnce(secs) == now

SleepUntil(secs) == now + secs

\* RECOMMENDATION_INTERVAL - time_since_last, 0 before the first recommendation.
CooldownLeft ==
    IF last_recommendation_time # None
    THEN RECOMMENDATION_INTERVAL - (now - last_recommendation_time[1])
    ELSE 0

\* The loop thread is not inside a time.sleep.
Awake == now >= wake

\* Lines 248-255: the while test and the cooldown wait.  The loop thread is the only
\* writer of what it reads here, once it runs.
LoopTest ==
    /\ lpc = "while"
    /\ lpc' = IF LoopContinues THEN "generate" ELSE "done"
    /\ wake' = IF LoopContinues /\ CooldownLeft > 0 THEN SleepUntil(CooldownLeft) ELSE wake
    /\ UNCHANGED << ipc, storeVars, sessionVars, now, handlerVars, ltimer,
                    recent_action_set, recommendations, gi, gk, held, current_hour,
                    recommendations_sent, last_recommendation_time, delivered,
                    reminderVars >>

\* set(recent_actions[-3:]) raises TypeError on an action it cannot hash.
SnapshotRaises(h) ==
    UnhashableAction \in Range(LastN(LastN(Actions(h), RECENT_WINDOW), SUPPRESS_WINDOW))

\* Lines 312-316: the list is created and the recent actions are taken out of the
\* history (list(self.action_history) is one read).  Nothing in recommendation_loop
\* catches the TypeError of line 316: the loop thread ends.
GenSnapshot ==
    /\ lpc = "generate"
    /\ IF SnapshotRaises(action_history)
       THEN /\ lpc' = "done"
            /\ UNCHANGED << recent_action_set, recommendations, gi, gk, held >>
       ELSE /\ recent_action_set' = RecentActionSet(action_history)
            /\ recommendations' = << >>
            /\ gi' = 1
            /\ gk' = 1
            /\ held' = None
            /\ lpc' = "rules"
    /\ UNCHANGED << ipc, storeVars, sessionVars, now, handlerVars, ltimer, current_hour,
                    recommendations_sent, last_recommendation_time, delivered,
                    wake, reminderVars >>

\* Lines 318-430: the next read of the rule in progress, on the car state and the
\* preferences as they are then.  The lighting rule takes the hour.
GenRule ==
    /\ lpc = "rules"
    /\ gi <= NumRules
    /\ \E hour \in (IF gi = 5 THEN Hours ELSE { current_hour }) :
         LET r == RuleStep(gi, gk, held, car_state, driver_preferences,
                           recent_action_set, hour)
         IN  /\ current_hour' = hour
             /\ recommendations' = recommendations \o r.recs
             /\ gi' = r.i
             /\ gk' = r.k
             /\ held' = r.held
    /\ UNCHANGED << ipc, storeVars, sessionVars, now, handlerVars, ltimer, lpc,
                    recent_action_set, recommendations_sent, last_recommendation_time,
                    delivered, wake, reminderVars >>

\* Line 433: the first two are returned.
GenReturn ==
    /\ lpc = "rules"
    /\ gi > NumRules
    /\ recommendations' = TopRecommendations(recommendations)
    /\ lpc' = "send"
    /\ UNCHANGED << ipc, storeVars, sessionVars, now, handlerVars, ltimer, gi, gk, held,
                    current_hour, recent_action_set, recommendations_sent,
                    last_recommendation_time, delivered, wake, reminderVars >>

SendRecommendationsCountsDelivered(ok) ==
    /\ lpc = "send"
    /\ IF recommendations # << >>
       THEN /\ delivered' = IF ok THEN delivered + 1 ELSE delivered
            /\ lpc' = IF ok THEN "count" ELSE "sleep"
       ELSE /\ ok
            /\ lpc' = "sleep"
            /\ UNCHANGED delivered
    /\ UNCHANGED << ipc, storeVars, sessionVars, now, handlerVars, ltimer,
                    recent_action_set, recommendations, gi, gk, held, current_hour,
                    recommendations_sent, last_recommendation_time, wake, reminderVars >>

SendRecommendationsRaises(ok) ==
    /\ lpc = "send"
    /\ IF recommendations # << >>
       THEN /\ delivered' = IF ok THEN delivered + 1 ELSE delivered
            /\ lpc' = IF ok THEN "count" ELSE "done"
       ELSE /\ ok
            /\ lpc' = "sleep"
            /\ UNCHANGED delivered
    /\ UNCHANGED << ipc, storeVars, sessionVars, now, handlerVars, ltimer,
                    recent_action_set, recommendations, gi, gk, held, current_hour,
                    recommendations_sent, last_recommendation_time, wake, reminderVars >>

SendRecommendationsCountsAll(ok) ==
    /\ lpc = "send"
    /\ IF recommendations # << >>
       THEN delivered' = IF ok THEN delivered + 1 ELSE delivered
       ELSE ok /\ UNCHANGED delivered
    /\ lpc' = "count"
    /\ UNCHANGED << ipc, storeVars, sessionVars, now, handlerVars, ltimer,
                    recent_action_set, recommendations, gi, gk, held, current_hour,
                    recommendations_sent, last_recommendation_time, wake, reminderVars >>

\* Lines 259-260 and send_recommendations: if there are recommendations the message is
\* published; ok tells whether client.publish returned or raised into the except of
\* send_recommendations.
SendRecommendations(ok) ==
    /\ lpc = "send"
    /\ IF recommendations # << >>
       THEN /\ delivered' = IF ok THEN delivered + 1 ELSE delivered
            /\ lpc' = "count"
       ELSE /\ ok
            /\ lpc' = "sleep"
            /\ UNCHANGED delivered
    /\ UNCHANGED << ipc, storeVars, sessionVars, now, handlerVars, ltimer,
                    recent_action_set, recommendations, gi, gk, held, current_hour,
                    recommendations_sent, last_recommendation_time, wake, reminderVars >>

\* Line 261: self.recommendations_sent += 1
CountRecommendation ==
    /\ lpc = "count"
    /\ recommendations_sent' = recommendations_sent + 1
    /\ lpc' = "stamp"
    /\ UNCHANGED << ipc, storeVars, sessionVars, now, handlerVars, ltimer,
                    recent_action_set, recommendations, gi, gk, held, current_hour,
                    last_recommendation_time, delivered, wake, reminderVars >>

\* Line 262: self.last_recommendation_time = datetime.now()
StampRecommendation ==
    /\ lpc = "stamp"
    /\ last_recommendation_time' = Some(now)
    /\ lpc' = "sleep"
    /\ UNCHANGED << ipc, storeVars, sessionVars, now, handlerVars, ltimer,
                    recent_action_set, recommendations, gi, gk, held, current_hour,
                    recommendations_sent, delivered, wake, reminderVars >>

\* Line 265: time.sleep(RECOMMENDATION_INTERVAL); the locals of the pass are gone.
LoopSleep ==
    /\ lpc = "sleep"
    /\ lpc' = "while"
    /\ wake' = SleepUntil(RECOMMENDATION_INTERVAL)
    /\ recommendations' = << >>
    /\ recent_action_set' = {}
    /\ gi' = 1
    /\ gk' = 1
    /\ held' = None
    /\ current_hour' = 0
    /\ UNCHANGED << ipc, storeVars, sessionVars, now, handlerVars, ltimer,
                    recommendations_sent, last_recommendation_time, delivered,
                    reminderVars >>

(***************************************************************************)
(* The break reminder: send_break_reminder on its Timer thread, in the     *)
(* steps of its test, its assignment and its publish.                      *)
(***************************************************************************)
\* Line 437: if not self.break_reminder_sent
ReminderTest(d) ==
    /\ rpc[d] = "armed"
    /\ Constructed
    /\ rpc' = [rpc EXCEPT ![d] = IF ~break_reminder_sent THEN "set" ELSE "done"]
    /\ UNCHANGED << ipc, storeVars, sessionVars, now, handlerVars, ltimer, loopVars,
                    break_reminder_sent, break_reminders_published >>

ReminderSetCounted(d) ==
    /\ rpc[d] = "set"
    /\ break_reminder_sent' = TRUE
    /\ recommendations_sent' = recommendations_sent + 1
    /\ rpc' = [rpc EXCEPT ![d] = "publish"]
    /\ UNCHANGED << ipc, storeVars, sessionVars, now, handlerVars, ltimer, lpc,
                    recent_action_set, recommendations, gi, gk, held, current_hour,
                    last_recommendation_time, delivered, wake,
                    break_reminders_published >>

\* Line 438.
ReminderSet(d) ==
    /\ rpc[d] = "set"
    /\ break_reminder_sent' = TRUE
    /\ rpc' = [rpc EXCEPT ![d] = "publish"]
    /\ UNCHANGED << ipc, storeVars, sessionVars, now, handlerVars, ltimer, loopVars,
                    break_reminders_published >>

\* Lines 459-465: the publish, which the bus accepts (ok) or refuses.
ReminderPublish(d, ok) ==
    /\ rpc[d] = "publish"
    /\ break_reminders_published' =
           IF ok THEN break_reminders_published + 1 ELSE break_reminders_published
    /\ rpc' = [rpc EXCEPT ![d] = "done"]
    /\ UNCHANGED << ipc, storeVars, sessionVars, now, handlerVars, ltimer, loopVars,
                    break_reminder_sent >>

\* The expiry signal of the reminder timer delivered once more.
DuplicateExpiry(d) ==
    /\ d # 1
    /\ rpc[1] # "unarmed"
    /\ rpc[d] = "unarmed"
    /\ rpc' = [rpc EXCEPT ![d] = "armed"]
    /\ UNCHANGED << ipc, storeVars, sessionVars, now, handlerVars, ltimer, loopVars,
                    break_reminder_sent, break_reminders_published >>

(***************************************************************************)
(* Inputs and specifications.  The steps of each thread, then the          *)
(* sessions they make up.  The bounds are guards of the next-state         *)
(* relations, not of the steps.                                            *)
(***************************************************************************)
\* The bus thread on a set of events, up to max messages.
BusThread(events, max) ==
    \/ \E ev \in events : received < max /\ HandlerAppend(ev)
    \/ HandlerSteps

\* A publish may fail while fewer than MaxFailures loop messages have been lost.
MayFail == recommendations_sent - delivered < MaxFailures

\* The loop thread, up to max generation passes that publish.
LoopThread(max) ==
    \/ LoopTest
    \/ recommendations_sent < max /\ GenSnapshot
    \/ GenRule
    \/ GenReturn
    \/ \E ok \in BOOLEAN : (ok \/ MayFail) /\ SendRecommendations(ok)
    \/ CountRecommendation
    \/ StampRecommendation
    \/ LoopSleep

\* The Timer thread of one delivery of the reminder expiry.
ReminderThread(d) ==
    \/ ReminderTest(d)
    \/ ReminderSet(d)
    \/ \E ok \in BOOLEAN : ReminderPublish(d, ok)

\* Events of the handler alone: an unknown action, the set actions without a value, with
\* 0, with a value in its range (20) and one above it (200), a step down, and the two
\* actions the likings are learnt from.
HandlerEvents ==
    { Event(UnknownAction, None), Event("infotainment_play", None),
      Event("seats_heat_on", None), Event("climate_decrease", None) }
        \cup { Event("climate_set_temperature", v) : v \in { None, Some(0), Some(20), Some(200) } }
        \cup { Event("infotainment_set_volume", v) : v \in { None, Some(0), Some(200) } }
        \cup { Event("seats_adjust", v) : v \in { None, Some(0) } }

\* The constructor and the bus thread, every kind of event.
NextHandler ==
    \/ Construct
    \/ BusThread(HandlerEvents, MaxHandlerEvents)

SpecHandler == Init /\ [][NextHandler]_vars

\* The constructor and the bus thread, a burst of freely chosen events and then one
\* event repeated until the history has been full and turned over.
BurstEvents ==
    { Event("infotainment_play", None), Event("seats_heat_on", None),
      Event("climate_set_temperature", Some(20)), Event("lights_brighten", None) }

FillerEvents == { Event("lights_dim", None) }

LongInputs(n) == IF n < MaxBurstEvents THEN BurstEvents ELSE FillerEvents

\* The burst may meet the constructor; the repeated event comes when it has returned.
NextLong ==
    \/ Construct
    \/ \E ev \in LongInputs(received) :
           /\ received < MaxLongEvents
           /\ received >= MaxBurstEvents => Constructed
           /\ HandlerAppend(ev)
    \/ HandlerSteps

SpecLong == Init /\ [][NextLong]_vars

\* The whole session: every thread of it.
SessionEvents ==
    { Event("climate_turn_on", None), Event("climate_turn_off", None) }

Next ==
    \/ Construct
    \/ BusThread(SessionEvents, MaxEvents)
    \/ LearningTimerSteps
    \/ LoopThread(MaxSent)
    \/ ReminderThread(1)

Spec == Init /\ [][Next]_vars

\* The whole session with at most MaxCapEvents events, the loop running up to the
\* session cap.
CapEvents == { Event("lights_turn_on", None) }

NextCap ==
    \/ Construct
    \/ BusThread(CapEvents, MaxCapEvents)
    \/ LearningTimerSteps
    \/ LoopThread(MAX_RECOMMENDATIONS_PER_SESSION)
    \/ ReminderThread(1)

SpecCap == Init /\ [][NextCap]_vars

\* The session over events that make the generation pass and the handler meet.
ThreadEvents ==
    { Event("climate_turn_on", None), Event("climate_increase", None),
      Event("lights_turn_on", None) }

NextThreads ==
    \/ Construct
    \/ BusThread(ThreadEvents, MaxThreadEvents)
    \/ LearningTimerSteps
    \/ LoopThread(MaxThreadSent)
    \/ ReminderThread(1)

SpecThreads == Init /\ [][NextThreads]_vars

\* The session with the expiry of the reminder timer delivered up to MaxDeliveries
\* times.  An action that is a JSON array is among its messages: with it in the
\* history the loop thread ends at line 316.
DupEvents == { Event("lights_turn_on", None), Event(UnhashableAction, None) }

NextDup ==
    \/ Construct
    \/ BusThread(DupEvents, MaxDupEvents)
    \/ LearningTimerSteps
    \/ LoopThread(MaxDupSent)
    \/ \E d \in Deliveries : DuplicateExpiry(d)
    \/ \E d \in Deliveries : ReminderThread(d)

SpecDup == Init /\ [][NextDup]_vars

(***************************************************************************)
(* The constructor and the bus thread, on payloads of every kind.          *)
(***************************************************************************)
MessageEvents ==
    { Event("infotainment_play", None), Event("climate_set_temperature", Some(20)),
      Event("lights_dim", None), Event(UnhashableAction, None) }

Payloads ==
    { Payload("text", NoEvent), Payload("array", NoEvent) }
        \cup { Payload("object", ev) : ev \in MessageEvents }

NextMessages ==
    \/ Construct
    \/ \E p \in Payloads :
           received < MaxMessageEvents /\ errors < MaxErrors /\ OnMessage(p)
    \/ HandlerSteps

SpecMessages == Init /\ [][NextMessages]_vars

(***************************************************************************)
(* The session with timers that fire: a threading.Timer that has been      *)
(* started runs its callback, and a thread that has been started runs, so  *)
(* the steps of the main thread, of the bus thread, of the learning timer  *)
(* and of the reminder are weakly fair.                                    *)
(***************************************************************************)
FairEvents == { Event("climate_turn_on", None), Event("lights_turn_on", None) }

NextFair ==
    \/ Construct
    \/ BusThread(FairEvents, MaxFairEvents)
    \/ LearningTimerSteps
    \/ LoopThread(MaxFairSent)
    \/ ReminderThread(1)

SpecFair ==
    /\ Init
    /\ [][NextFair]_vars
    /\ WF_vars(Construct)
    /\ WF_vars(HandlerSteps)
    /\ WF_vars(LearningTimerSteps)
    /\ WF_vars(ReminderThread(1))

(***************************************************************************)
(* The session with its clock.  Time passes in steps of TickSteps, once    *)
(* the constructor has returned; the learning timer fires LEARNING_PERIOD  *)
(* after the start of the session at the earliest, and the loop thread     *)
(* goes on when its sleep has returned.                                    *)
(***************************************************************************)
TickSteps == { 5, 20 }

Tick(d) ==
    /\ now' = now + d
    /\ UNCHANGED << ipc, storeVars, sessionVars, handlerVars, ltimer, loopVars,
                    reminderVars >>

LearningTimerDue ==
    session_start # None /\ now >= session_start[1] + LEARNING_PERIOD

TimedEvents == { Event("climate_turn_on", None), Event("lights_turn_on", None) }

NextTimed ==
    \/ Construct
    \/ BusThread(TimedEvents, MaxTimedEvents)
    \/ LearningTimerDue /\ LearningTimerSteps
    \/ Awake /\ LoopThread(MaxTimedSent)
    \/ \E d \in TickSteps : Constructed /\ now + d <= MaxTime /\ Tick(d)

SpecTimed == Init /\ [][NextTimed]_vars

(***************************************************************************)
(* The session with its shutdown.  run() ends on Ctrl+C with               *)
(* client.loop_stop(), which waits for the handler in progress and stops   *)
(* the bus thread, and client.disconnect(); it cancels no timer and stops  *)
(* no loop.  The bus thread of loop_start() is a daemon, a thread inherits *)
(* that flag from the thread that creates it, and the loop thread is       *)
(* created with daemon=True: the two Timer threads, created in the         *)
(* handler, and the loop thread are daemons.  They go on running while the *)
(* main thread is in loop_stop() and disconnect() and until the            *)
(* interpreter has ended; none of them keeps it from ending.               *)
(***************************************************************************)
\* Line 522: client.loop_stop() returns once the bus thread has ended; the except block
\* before it (513-519) only reads.
LoopStop ==
    /\ Constructed
    /\ hpc = "idle"
    /\ hpc' = "stopped"
    /\ UNCHANGED << ipc, storeVars, sessionVars, now, hev, received, errors, hret,
                    ltimer, loopVars, reminderVars >>

\* Line 523: client.disconnect()
Disconnect ==
    /\ hpc = "stopped"
    /\ hpc' = "disconnected"
    /\ UNCHANGED << ipc, storeVars, sessionVars, now, hev, received, errors, hret,
                    ltimer, loopVars, reminderVars >>

\* run() returns and the interpreter ends, and the daemon threads with it.
ProcessExit ==
    /\ hpc = "disconnected"
    /\ hpc' = "exited"
    /\ UNCHANGED << ipc, storeVars, sessionVars, now, hev, received, errors, hret,
                    ltimer, loopVars, reminderVars >>

\* The daemon threads run until the interpreter has ended.
ProcessAlive == hpc # "exited"

\* A publish on the client that has left the bus delivers nothing.
BusAccepts(ok) == hpc = "disconnected" => ~ok

NextShutdown ==
    \/ Construct
    \/ BusThread(SessionEvents, MaxShutdownEvents)
    \/ LoopStop
    \/ Disconnect
    \/ ProcessExit
    \/ ProcessAlive /\ LearningTimerSteps
    \/ ProcessAlive /\ LoopTest
    \/ ProcessAlive /\ recommendations_sent < MaxShutdownSent /\ GenSnapshot
    \/ ProcessAlive /\ GenRule
    \/ ProcessAlive /\ GenReturn
    \/ \E ok \in BOOLEAN :
           /\ ProcessAlive
           /\ recommendations # << >> => BusAccepts(ok)
           /\ (hpc # "disconnected") => (ok \/ MayFail)
           /\ SendRecommendations(ok)
    \/ ProcessAlive /\ CountRecommendation
    \/ ProcessAlive /\ StampRecommendation
    \/ ProcessAlive /\ LoopSleep
    \/ ProcessAlive /\ ReminderTest(1)
    \/ ProcessAlive /\ ReminderSet(1)
    \/ \E ok \in BOOLEAN : ProcessAlive /\ BusAccepts(ok) /\ ReminderPublish(1, ok)

SpecShutdown == Init /\ [][NextShutdown]_vars

(***************************************************************************)
(* The session over events that make three and more rules eligible at      *)
(* once: climate off, the volume away from the preferred one, the lights   *)
(* off in the evening or on in the daytime.                                *)
(***************************************************************************)
GenEvents ==
    { Event("infotainment_play", None), Event("infotainment_volume_up", None),
      Event("lights_turn_on", None) }

NextGen ==
    \/ Construct
    \/ BusThread(GenEvents, MaxGenEvents)
    \/ LearningTimerSteps
    \/ LoopThread(MaxGenSent)

SpecGen == Init /\ [][NextGen]_vars

(***************************************************************************)
(* Claims.                                                                 *)
(***************************************************************************)

LastArrived == arrived[Len(arrived)]
InWindow(a) == a \in Range(Actions(action_history))
CountArrived(a) == Cardinality({ i \in 1..Len(arrived) : arrived[i].action = a })

\* The bus thread has handled its last message to the end: handle_vehicle_action has
\* returned, and the event of that message is the last one recorded.
Handled == hpc = "idle" /\ hret = "returned"

\* C1 (as claimed): right after a climate_increase or climate_decrease event the
\* temperature is in [16,30], and right after an infotainment_volume_up or
\* infotainment_volume_down event the volume is in [0,100], whatever came before.
C1_ClampedAfterStep ==
    Handled =>
        /\ LastArrived.action \in { "climate_increase", "climate_decrease" }
               => car_state.temperature \in 16..30
        /\ LastArrived.action \in { "infotainment_volume_up", "infotainment_volume_down" }
               => car_state.volume \in 0..100

\* C2: brightness is in [0,100] in every reachable state.
C2_BrightnessInRange == car_state.brightness \in 0..100

\* C2 witness: more lights_dim events than it takes to reach 0, so the floor has acted.
C2_Witness == Handled /\ car_state.brightness = 0 /\ CountArrived("lights_dim") >= 7

\* C3: the history never holds more than 50 entries and is the last min(n, 50) of the
\* n events accepted so far, in arrival order.
C3_HistoryIsLastFifty ==
    /\ Len(action_history) <= 50
    /\ action_history = LastN(arrived, Min(Len(arrived), 50))

\* C3 witness: the 52nd event has arrived and the two oldest are gone.
C3_Witness ==
    /\ Len(arrived) = 52
    /\ Len(action_history) = 50
    /\ action_history[1] = arrived[3]
    /\ action_history[1] # arrived[1]

\* Entries of action a whose value is not None, and the mean truncated toward zero.
NonNullValues(h, a) ==
    LET keep(e) == e.action = a /\ e.value # None
        kept == SelectSeq(h, keep)
    IN  [i \in 1..Len(kept) |-> kept[i].value[1]]

TruncatedMean(xs) ==
    IF Sum(xs) >= 0 THEN Sum(xs) \div Len(xs) ELSE -((-Sum(xs)) \div Len(xs))

\* C7 (as claimed): after an event handled with a history of 3 entries or more, each
\* preferred_* field is the truncated mean of the values of all entries of its set
\* action that carry a non-null value, whenever there is such an entry.
C7_MeanOfNonNull ==
    (Handled /\ Len(action_history) >= 3) =>
        /\ NonNullValues(action_history, "climate_set_temperature") # << >>
             => driver_preferences.preferred_temperature =
                  TruncatedMean(NonNullValues(action_history, "climate_set_temperature"))
        /\ NonNullValues(action_history, "infotainment_set_volume") # << >>
             => driver_preferences.preferred_volume =
                  TruncatedMean(NonNullValues(action_history, "infotainment_set_volume"))
        /\ NonNullValues(action_history, "seats_adjust") # << >>
             => driver_preferences.preferred_seat_position =
                  TruncatedMean(NonNullValues(action_history, "seats_adjust"))

FlagsFollowWindow ==
    /\ InWindow("infotainment_play") => driver_preferences.likes_music
    /\ InWindow("seats_heat_on") => driver_preferences.likes_warm_seats

\* C8 (as claimed): after an event has been fully handled, infotainment_play in the
\* window implies likes_music and seats_heat_on in the window implies likes_warm_seats.
C8_FlagsFollowWindow == Handled => FlagsFollowWindow

\* C8 (amended): the same, once the history holds at least 3 entries.
C8_FlagsFollowWindowFromThree ==
    (Handled /\ Len(action_history) >= LEARN_MIN_HISTORY) => FlagsFollowWindow

\* C8 witness: a single infotainment_play among three handled events has set the flag.
C8_Witness ==
    /\ Handled
    /\ Len(action_history) = 3
    /\ Count(action_history, "infotainment_play") = 1
    /\ action_history[1].action = "infotainment_play"
    /\ driver_preferences.likes_music

\* C9: likes_music and likes_warm_seats never go from true to false.
C9_FlagsNeverReset ==
    [][ /\ driver_preferences.likes_music => driver_preferences'.likes_music
        /\ driver_preferences.likes_warm_seats => driver_preferences'.likes_warm_seats ]_vars

\* C9 witness: the flag is still true after a recompute over a window that has lost
\* its infotainment_play.
C9_Witness ==
    /\ Handled
    /\ driver_preferences.likes_music
    /\ CountArrived("infotainment_play") > 0
    /\ ~InWindow("infotainment_play")

CommonIsTwice ==
    /\ \A a \in Range(Actions(action_history)) \cup Range(driver_preferences.common_actions) :
           a \in Range(driver_preferences.common_actions)
               <=> Count(action_history, a) >= COMMON_MIN_COUNT
    /\ Cardinality(Range(driver_preferences.common_actions))
           = Len(driver_preferences.common_actions)

\* C12 (as claimed): after an event has been fully handled, common_actions holds a name
\* exactly when that name occurs at least 2 times in the current history window.
C12_CommonIsTwice == Handled => CommonIsTwice

\* C12 (amended): the same, in the states whose history holds at least 3 entries; a
\* name whose count fell below 2 when the window moved on is no longer listed.
C12_CommonIsTwiceFromThree ==
    (Handled /\ Len(action_history) >= LEARN_MIN_HISTORY) => CommonIsTwice

\* C12 witness: infotainment_play was recorded twice and listed, one of its entries
\* has left the window, and it is no longer listed while lights_dim is.
C12_Witness ==
    /\ Handled
    /\ Len(arrived) > HISTORY_MAXLEN
    /\ CountArrived("infotainment_play") >= COMMON_MIN_COUNT
    /\ Count(action_history, "infotainment_play") = 1
    /\ "infotainment_play" \notin Range(driver_preferences.common_actions)
    /\ "lights_dim" \in Range(driver_preferences.common_actions)

\* The car-state field a set action writes.
SetField(a) ==
    CASE a = "climate_set_temperature" -> "temperature"
      [] a = "infotainment_set_volume" -> "volume"
      [] a = "seats_adjust" -> "seat_position"

\* C17 (as claimed): right after a set action carrying a non-null value the field it
\* writes holds exactly that value, for every numeric value, 0 included.
C17_SetStoresValue ==
    (Handled /\ LastArrived.action \in SetActions /\ LastArrived.value # None)
        => car_state[SetField(LastArrived.action)] = LastArrived.value[1]

\* The handler is done with the message the event ev came in.
DoneWith(ev) == hpc = "idle" /\ received >= 1 /\ hev = ev

\* The event is the newest entry of the history.
Recorded(ev) ==
    /\ arrived # << >>
    /\ LastArrived = ev
    /\ action_history # << >>
    /\ action_history[Len(action_history)] = ev

\* C18 (as claimed): an event with an unknown action name leaves every field of the car
\* state as it was and is appended to the history, where the recompute of the
\* preferences counts it.
C18_UnknownIsRecorded ==
    /\ [](DoneWith(Event(UnknownAction, None)) => Recorded(Event(UnknownAction, None)))
    /\ [](( /\ DoneWith(Event(UnknownAction, None))
            /\ Len(action_history) >= LEARN_MIN_HISTORY
            /\ Count(action_history, UnknownAction) >= COMMON_MIN_COUNT )
              => UnknownAction \in Range(driver_preferences.common_actions))
    /\ [][ hev.action = UnknownAction => car_state' = car_state ]_vars

NullSets == { Event(a, None) : a \in SetActions }

\* C19 (as claimed): a set action whose value is missing or null leaves the car state as
\* it was, and the event is appended to the history.
C19_NullSetIsNoOp ==
    /\ [](\A ev \in NullSets : DoneWith(ev) => Recorded(ev))
    /\ [][ (hev \in NullSets) => car_state' = car_state ]_vars

\* C22: while the history holds fewer than 3 entries, every preference field has its
\* initial default.
C22_DefaultsBelowThree ==
    Len(action_history) < LEARN_MIN_HISTORY => driver_preferences = InitialPreferences

\* C22 witness: two events that a recompute would have learnt from, a played track and
\* a temperature of 20, have been handled and the preferences are the defaults.
C22_Witness ==
    /\ Handled
    /\ Constructed
    /\ Len(action_history) = 2
    /\ InWindow("infotainment_play")
    /\ NonNullValues(action_history, "climate_set_temperature") = << 20 >>
    /\ car_state.temperature = 20
    /\ driver_preferences = InitialPreferences

\* The preference a set action teaches.
PreferredField(a) ==
    CASE a = "climate_set_temperature" -> "preferred_temperature"
      [] a = "infotainment_set_volume" -> "preferred_volume"
      [] a = "seats_adjust" -> "preferred_seat_position"

C23_Retained ==
    \A a \in SetActions :
        NonNullValues(action_history, a) = << >> =>
            driver_preferences'[PreferredField(a)] = driver_preferences[PreferredField(a)]

C23_KeepsLastMean ==
    (/\ CountArrived("climate_set_temperature") >= 1
     /\ ~InWindow("climate_set_temperature"))
        => driver_preferences.preferred_temperature = 20

\* C23: a recompute over a window without a valued entry of a set action leaves the
\* matching preferred_* field as it was; once every climate_set_temperature entry has
\* left the history, preferred_temperature keeps the last mean it was given.
C23_StickyPreference == []C23_KeepsLastMean /\ [][C23_Retained]_vars

\* C23 witness: the temperature was set to 20 at the start, more than 50 events have
\* been handled, no climate_set_temperature entry is in the history any more and
\* preferred_temperature is 20, not the default 22.
C23_Witness ==
    /\ Handled
    /\ Len(arrived) > HISTORY_MAXLEN
    /\ CountArrived("climate_set_temperature") >= 1
    /\ ~InWindow("climate_set_temperature")
    /\ driver_preferences.preferred_temperature = 20
    /\ InitialPreferences.preferred_temperature # 20

\* The session's last 3 recorded actions.
LastThree(h) == Range(LastN(Actions(h), 3))

RecommendedActions(recs) == { recs[i].action : i \in 1..Len(recs) }

\* C4 (as claimed): the break reminder is published at most once per session, also
\* when the expiry is delivered more than once and two deliveries interleave.
C4_AtMostOneReminder == break_reminders_published <= 1

\* C5 (as claimed): when a generation pass returns, no recommendation it returns has
\* an action among the last 3 actions the session has recorded by then.
C5_NoRecentlyRecorded ==
    [][ (lpc = "rules" /\ lpc' = "send") =>
            \A i \in 1..Len(recommendations') :
                recommendations'[i].action \notin LastThree(action_history') ]_vars

\* The positions of the loop thread after the count of a cycle and before the next
\* generation pass.
AfterCount == { "stamp", "sleep", "while", "done" }

C6_Bounded ==
    /\ recommendations_sent <= 50
    /\ recommendations_sent = 50 => lpc \in AfterCount

C6_Stopped ==
    recommendations_sent = 50 =>
        /\ recommendations_sent' = 50
        /\ delivered' = delivered
        /\ lpc' \in AfterCount
        /\ lpc = "done" => lpc' = "done"

\* C6: recommendations_sent never exceeds 50, and once it is 50 the loop publishes
\* nothing more and, once ended, stays ended.
C6_CapHolds == []C6_Bounded /\ [][C6_Stopped]_vars

\* C6 witness: the cap has been reached and the loop has ended.
C6_Witness == recommendations_sent = 50 /\ lpc = "done"

C10_Applies(cs, h) == ~cs.climate_on /\ "climate_turn_on" \notin LastThree(h)

C10_First(recs) == recs # << >> /\ recs[1] = Rec("climate_turn_on", None)

\* What the generator returns on the state it is called in, at every hour, when no other
\* thread writes during the pass.
C10_OnState ==
    (lpc = "generate" /\ C10_Applies(car_state, action_history)) =>
        \A hour \in Hours :
            C10_First(GenerateRecommendations(car_state, driver_preferences,
                                              action_history, hour))

\* A generation pass of the loop: it takes the last 3 recorded actions, its first rule
\* reads climate_on, and what that rule appends stays first until the pass returns.
C10_OnPass ==
    /\ (lpc = "generate" /\ lpc' = "rules") =>
           recent_action_set' = LastThree(action_history)
    /\ ( /\ lpc = "rules" /\ gi = 1 /\ gi' = 2
         /\ ~car_state.climate_on
         /\ "climate_turn_on" \notin recent_action_set )
           => C10_First(recommendations')
    /\ (lpc = "rules" /\ lpc' \in { "rules", "send" } /\ C10_First(recommendations))
           => C10_First(recommendations')

\* C10: whenever the generator runs with climate_on false and climate_turn_on not among
\* the last 3 recorded actions, its result is non-empty and starts with climate_turn_on
\* with a null value.
C10_ClimateFirst == []C10_OnState /\ [][C10_OnPass]_vars

\* C10 witness: a pass has run on such a state and returned climate_turn_on first.
C10_Witness ==
    /\ lpc = "send"
    /\ hpc = "idle"
    /\ C10_Applies(car_state, action_history)
    /\ C10_First(recommendations)
    /\ Len(recommendations) = 2

C11_Order ==
    \/ Phase' = Phase
    \/ Phase = "Idle" /\ Phase' = "Learning"
    \/ Phase = "Learning" /\ Phase' = "Active"

\* The handler is done with the first message and the session has left Idle, with its
\* start time recorded and both timers started.
C11_FirstEvent ==
    (received >= 1 /\ hpc = "idle") =>
        /\ Phase # "Idle"
        /\ session_start # None
        /\ ltimer # "unarmed"
        /\ rpc[1] # "unarmed"

C11_Transitions ==
    /\ (Phase = "Idle" /\ Phase' = "Learning") => (received = 1 /\ hpc = "start")
    /\ (Phase = "Learning" /\ Phase' = "Active") => (ltimer = "armed" /\ ltimer' = "complete")

\* C11 (as claimed): the phase only moves Idle -> Learning -> Active; Idle -> Learning
\* happens at the first inbound event, which records the start time and arms both
\* timers; Learning -> Active is the expiry of the learning timer.
C11_PhaseOrder == []C11_FirstEvent /\ [][C11_Order /\ C11_Transitions]_vars

\* A step of a generation pass that reads the shared state: the snapshot of the recent
\* actions, or a read of a rule.
GenerationReads ==
    \/ lpc = "generate" /\ lpc' = "rules"
    \/ lpc = "rules" /\ << gi, gk >>' # << gi, gk >>

\* C13 (as claimed): no generation pass reads the state while an inbound event is in
\* the history and the car state or the preferences do not yet reflect it.
C13_HandlingAtomic == [][GenerationReads => hpc = "idle"]_vars

\* The action names a rule can recommend, in the order the rules are declared: climate
\* on, temperature, music, volume, lighting, seat heat, seat position.
RuleActions(i) ==
    CASE i = 1 -> { "climate_turn_on" }
      [] i = 2 -> { "climate_set_temperature" }
      [] i = 3 -> { "infotainment_play" }
      [] i = 4 -> { "infotainment_set_volume" }
      [] i = 5 -> { "lights_turn_on", "lights_turn_off" }
      [] i = 6 -> { "seats_heat_on" }
      [] i = 7 -> { "seats_adjust" }

EligibleRules(cs, prefs, h, hour) ==
    { i \in 1..NumRules : RuleRecs(i, cs, prefs, RecentActionSet(h), hour) # << >> }

\* recs is what the first two eligible rules recommend, in declaration order.
FirstTwoEligible(recs, cs, prefs, h, hour) ==
    LET el == EligibleRules(cs, prefs, h, hour)
        lower(i) == { j \in el : j < i }
        rule(k) == CHOOSE i \in el : Cardinality(lower(i)) = k - 1
    IN  /\ Len(recs) = Min(Cardinality(el), 2)
        /\ \A k \in 1..Len(recs) :
               /\ << recs[k] >> = RuleRecs(rule(k), cs, prefs, RecentActionSet(h), hour)
               /\ recs[k].action \in RuleActions(rule(k))

\* What the generator returns on the state it is called in, at every hour, when no other
\* thread writes during the pass.
C14_OnState ==
    lpc = "generate" =>
      \A hour \in Hours :
        FirstTwoEligible(GenerateRecommendations(car_state, driver_preferences,
                                                 action_history, hour),
                         car_state, driver_preferences, action_history, hour)

\* A generation pass of the loop: the rules are taken in declaration order, each appends
\* at most its one recommendation, and the pass returns the first two of the list.
C14_OnPass ==
    /\ (lpc = "rules" /\ lpc' = "rules") =>
           /\ gi' \in { gi, gi + 1 }
           /\ \/ recommendations' = recommendations
              \/ /\ gi' = gi + 1
                 /\ Len(recommendations') = Len(recommendations) + 1
                 /\ SubSeq(recommendations', 1, Len(recommendations)) = recommendations
                 /\ recommendations'[Len(recommendations')].action \in RuleActions(gi)
    /\ (lpc = "rules" /\ lpc' = "send") =>
           /\ gi = NumRules + 1
           /\ Len(recommendations') = Min(Len(recommendations), 2)
           /\ \A k \in 1..Len(recommendations') : recommendations'[k] = recommendations[k]

\* C14: the generator returns at most 2 recommendations, the ones of the first two
\* eligible rules in declaration order; what later eligible rules recommend is dropped.
C14_FirstTwoEligible == []C14_OnState /\ [][C14_OnPass]_vars

\* C14 witness: a pass has returned climate_turn_on and the volume recommendation while
\* the lighting rule was eligible too, and its recommendation was dropped.
C14_Witness ==
    /\ lpc = "send"
    /\ hpc = "idle"
    /\ Cardinality(EligibleRules(car_state, driver_preferences, action_history,
                                 current_hour)) >= 3
    /\ 5 \in EligibleRules(car_state, driver_preferences, action_history, current_hour)
    /\ Len(recommendations) = 2
    /\ recommendations[1].action = "climate_turn_on"
    /\ recommendations[2].action = "infotainment_set_volume"

\* A loop message is handed to the bus (the publish may fail).
LoopPublishes == lpc = "send" /\ lpc' = "count"

C15_NoneBeforeActive ==
    Phase # "Active" => (lpc = "none" /\ recommendations_sent = 0 /\ delivered = 0)

\* C15: no loop message is published while the session is Idle or Learning; every
\* publish of the loop happens with the learning timer expired and the phase Active.
C15_PublishOnlyActive ==
    /\ []C15_NoneBeforeActive
    /\ [][ (LoopPublishes \/ delivered' # delivered)
               => (Phase = "Active" /\ ltimer = "fired") ]_vars

\* C15 witness: a loop message has been published and delivered, in Active.
C15_Witness ==
    /\ Phase = "Active"
    /\ recommendations_sent = 1
    /\ delivered = 1

\* The session has been torn down: run() has stopped the bus thread and left the bus.
TornDown == hpc \in { "disconnected", "exited" }

\* C16 (as claimed): once the session has been torn down no timer callback fires and no
\* loop iteration runs: no learning completion, break reminder or recommendation is
\* applied or published any more.  The code cancels neither timer and does not stop the
\* loop: their threads step between the teardown and the end of the process.
C16_QuietAfterShutdown ==
    [][ TornDown =>
            UNCHANGED << learning_complete, ltimer, rpc, lpc, recommendations_sent,
                         last_recommendation_time, break_reminder_sent, delivered,
                         break_reminders_published >> ]_vars

\* The history as it was before the message the bus thread is handling.
HistoryBefore ==
    IF hpc = "idle" THEN action_history
    ELSE LastN(SubSeq(arrived, 1, Len(arrived) - 1),
               Min(Len(arrived) - 1, HISTORY_MAXLEN))

\* C20 (as claimed): a payload that cannot be processed, because it does not parse or
\* because an error is raised anywhere in the handler, is discarded with the history,
\* the car state, the preferences and the phase as they were before the message.
C20_DiscardedUnchanged ==
    [][ errors' > errors =>
            /\ action_history' = HistoryBefore
            /\ UNCHANGED << car_state, driver_preferences, session_start,
                            learning_started, learning_complete >> ]_vars

\* The step receives a message and appends its event to the history.
Appends ==
    /\ arrived' = Append(arrived, hev')
    /\ Len(action_history') = Min(Len(action_history) + 1, HISTORY_MAXLEN)
    /\ action_history'[Len(action_history')] = hev'

\* The car state after the transition of an event of the session.
TransitionApplied(ev) ==
    CASE ev.action = "infotainment_play" ->
             car_state' = [car_state EXCEPT !.infotainment_on = TRUE]
      [] ev.action = "infotainment_volume_up" ->
             car_state' = [car_state EXCEPT !.volume = Min(@ + 10, 100)]
      [] ev.action = "lights_turn_on" ->
             car_state' = [car_state EXCEPT !.lights_on = TRUE]

C21_Handled ==
    /\ received' # received => Appends
    /\ (hpc = "update" /\ hpc' # hpc) => TransitionApplied(hev)
    /\ errors' = errors

C21_Recomputed ==
    (hpc = "idle" /\ received >= 1 /\ Len(action_history) >= LEARN_MIN_HISTORY) =>
        (FlagsFollowWindow /\ CommonIsTwice)

\* C21 (as claimed): in each of the phases Idle, Learning and Active every inbound
\* event is taken up, appended to the history, applied to the car state and followed
\* by the recompute of the preferences; none is given up on.
C21_EveryPhaseHandles ==
    /\ [](hpc = "idle" => \A ev \in GenEvents : ENABLED HandlerAppend(ev))
    /\ []C21_Recomputed
    /\ [][C21_Handled]_vars

C24_Cycle ==
    /\ (lpc = "send" /\ lpc' # lpc) =>
           IF recommendations # << >>
           THEN /\ lpc' = "count"
                /\ delivered' \in { delivered, delivered + 1 }
                /\ UNCHANGED << recommendations_sent, last_recommendation_time >>
           ELSE /\ lpc' = "sleep"
                /\ UNCHANGED << recommendations_sent, last_recommendation_time, delivered >>
    /\ (lpc = "count" /\ lpc' # lpc) =>
           /\ lpc' = "stamp"
           /\ recommendations_sent' = recommendations_sent + 1
    /\ (lpc = "stamp" /\ lpc' # lpc) =>
           /\ lpc' = "sleep"
           /\ last_recommendation_time' = Some(now)
    /\ recommendations_sent' # recommendations_sent => lpc = "count"
    /\ last_recommendation_time' # last_recommendation_time => lpc = "stamp"
    /\ delivered' # delivered => lpc = "send"

\* The generator yields nothing exactly when no rule is eligible in the state it is
\* called in.
C24_Yield ==
    lpc = "generate" =>
      \A hour \in Hours :
        GenerateRecommendations(car_state, driver_preferences, action_history, hour) = << >>
            <=> EligibleRules(car_state, driver_preferences, action_history, hour) = {}

\* C24: a loop cycle whose generation yields a recommendation publishes one message,
\* adds exactly 1 to recommendations_sent and sets last_recommendation_time to the
\* present instant; a cycle in which no rule is eligible publishes nothing and leaves
\* both as they were.
C24_CycleCounts ==
    /\ []C24_Yield
    /\ [][ /\ C24_Cycle
           /\ (lpc = "rules" /\ lpc' = "send") =>
                  (recommendations' = << >> <=> recommendations = << >>) ]_vars

\* C24 witness: after a cycle that published, a later cycle found no rule eligible:
\* recommendations_sent is still 1 and last_recommendation_time is that of the first.
C24_Witness ==
    /\ lpc = "sleep"
    /\ recommendations = << >>
    /\ recommendations_sent = 1
    /\ delivered = 1
    /\ last_recommendation_time # None
    /\ now >= last_recommendation_time[1] + RECOMMENDATION_INTERVAL

C25_NotDuringCooldown ==
    (lpc \in { "generate", "rules", "send" } /\ last_recommendation_time # None) =>
        now - last_recommendation_time[1] >= RECOMMENDATION_INTERVAL

C25_Separated ==
    (LoopPublishes /\ last_recommendation_time # None) =>
        now - last_recommendation_time[1] >= RECOMMENDATION_INTERVAL

\* C25: two consecutive publishes of the loop are at least RECOMMENDATION_INTERVAL
\* apart; the loop neither generates nor publishes while less than the interval has
\* passed since last_recommendation_time.
C25_IntervalKept == []C25_NotDuringCooldown /\ [][C25_Separated]_vars

\* C25 witness: the second message was published exactly one interval after the
\* first, which was published when the learning period ended.
C25_Witness ==
    /\ recommendations_sent = 2
    /\ lpc = "sleep"
    /\ last_recommendation_time =
           Some(session_start[1] + LEARNING_PERIOD + RECOMMENDATION_INTERVAL)
    /\ now = last_recommendation_time[1]

\* A publish of the loop, or of the reminder, that the bus refused.
LoopPublishFails == LoopPublishes /\ delivered' = delivered

ReminderPublishFails ==
    /\ rpc[1] = "publish"
    /\ rpc'[1] = "done"
    /\ break_reminders_published' = break_reminders_published

LoopStep ==
    \/ LoopTest
    \/ GenSnapshot
    \/ GenRule
    \/ GenReturn
    \/ \E ok \in BOOLEAN : SendRecommendations(ok)
    \/ CountRecommendation
    \/ StampRecommendation
    \/ LoopSleep

C26_LoopGoesOn ==
    /\ lpc = "done" => recommendations_sent >= MAX_RECOMMENDATIONS_PER_SESSION
    /\ lpc \notin { "none", "done" } => ENABLED LoopStep
    /\ lpc \in { "while", "generate" } => recommendations = << >>

C26_AfterFailure ==
    /\ LoopPublishFails => UNCHANGED << storeVars, sessionVars >>
    /\ ReminderPublishFails => UNCHANGED << storeVars, sessionVars, loopVars >>
    /\ delivered' # delivered => LoopPublishes
    /\ (lpc' = "send" /\ lpc # "send") => lpc = "rules"
    /\ break_reminders_published' # break_reminders_published => rpc[1] = "publish"
    /\ rpc[1] = "done" => rpc'[1] = "done"

\* C26: a publish the bus refuses, of a loop message or of the break reminder, neither
\* stops the loop nor ends the session: the loop goes on to its sleep and to the next
\* generation, and it publishes again only what a new generation pass has returned.
C26_FailureDoesNotStop == []C26_LoopGoesOn /\ [][C26_AfterFailure]_vars

\* C26 witness: the first loop message and the reminder were both refused by the bus,
\* and the loop has gone on to generate again and has delivered its second message.
C26_Witness ==
    /\ recommendations_sent = 2
    /\ delivered = 1
    /\ break_reminder_sent
    /\ rpc[1] = "done"
    /\ break_reminders_published = 0
    /\ lpc = "generate"
    /\ Phase = "Active"

C27_BecomesActive == (received >= 1) ~> (Phase = "Active" /\ lpc # "none")

\* The reminder has been handed to the bus, which delivers it unless it refuses.
C27_ReminderOut == break_reminder_sent /\ rpc[1] = "done"

\* C27 (as claimed): with timers that fire, once the first event has been received the
\* phase eventually becomes Active and the loop is started, and the break reminder is
\* eventually published (handed to the bus), never while the session is Idle.
C27_EventuallyActiveAndReminded ==
    /\ C27_BecomesActive
    /\ (received >= 1) ~> C27_ReminderOut
    /\ [](break_reminder_sent => Phase # "Idle")

\* start_learning is entered once: the start of the session is recorded once and each
\* timer is started once.
C28_StartsOnce ==
    /\ (hpc' = "session_start" /\ hpc # "session_start") =>
           /\ ~learning_started
           /\ session_start = None
           /\ ltimer = "unarmed"
           /\ rpc[1] = "unarmed"
    /\ session_start # None => session_start' = session_start
    /\ learning_started => learning_started'
    /\ (ltimer' = "armed" /\ ltimer # "armed") => ltimer = "unarmed"
    /\ (rpc'[1] = "armed" /\ rpc[1] # "armed") => rpc[1] = "unarmed"

\* complete_learning runs once: the loop thread is created once.
C28_CompletesOnce ==
    /\ learning_complete' # learning_complete =>
           (~learning_complete /\ ltimer = "armed" /\ ltimer' = "complete" /\ lpc = "none")
    /\ ltimer = "fired" => ltimer' = "fired"
    /\ lpc # "none" => lpc' # "none"
    /\ (lpc = "none" /\ lpc' # "none") =>
           (ltimer = "complete" /\ ltimer' = "fired" /\ lpc' = "while")

\* C28: whatever events arrive, start_learning and complete_learning each run at most
\* once, so one learning timer, one reminder timer and one loop thread are created at
\* most, and no second loop is started on the session.
C28_OneOfEach == [][C28_StartsOnce /\ C28_CompletesOnce]_vars

\* C28 witness: two events have been handled, the last one while the loop was
\* running; the timers have fired once and the session start is that of the first.
C28_Witness ==
    /\ Len(arrived) = 2
    /\ Handled
    /\ session_start = Some(0)
    /\ ltimer = "fired"
    /\ rpc[1] = "done"
    /\ lpc = "sleep"
    /\ LastArrived.action \notin recent_action_set

C29_Frame ==
    /\ loopVars' # loopVars => UNCHANGED << storeVars, reminderVars >>
    /\ reminderVars' # reminderVars => UNCHANGED << storeVars, loopVars >>
    /\ << car_state, action_history, driver_preferences >>'
           # << car_state, action_history, driver_preferences >>
         => (hpc # "idle" \/ hpc' # "idle")

C29_ReminderNotCapped ==
    recommendations_sent = MAX_RECOMMENDATIONS_PER_SESSION =>
        /\ rpc[1] = "armed" => ENABLED ReminderTest(1)
        /\ rpc[1] = "set" => ENABLED ReminderSet(1)
        /\ rpc[1] = "publish" => ENABLED ReminderPublish(1, TRUE)

\* C29: the generation, the publishes of the loop and the break reminder leave the car
\* state, the history and the preferences as they are, which only the handling of an
\* event changes; the reminder also leaves recommendations_sent and
\* last_recommendation_time as they are, and it is sent also when the cap is reached.
C29_OnlyHandlerWrites == []C29_ReminderNotCapped /\ [][C29_Frame]_vars

\* C29 witness: the loop has stopped at the cap and the reminder, which found the cap
\* reached, has been published; the state is as the one event of the session left it.
C29_Witness ==
    /\ recommendations_sent = MAX_RECOMMENDATIONS_PER_SESSION
    /\ lpc = "done"
    /\ break_reminder_sent
    /\ rpc[1] = "done"
    /\ break_reminders_published = 1
    /\ Handled
    /\ Len(action_history) = 1
    /\ car_state = UpdateCarState(InitialCarState, LastArrived.action, LastArrived.value)
    /\ driver_preferences = InitialPreferences

\* C30 (as claimed): no message of the loop holds both climate_turn_on and
\* climate_set_temperature, nor both infotainment_play and infotainment_set_volume,
\* also when events are handled while a generation pass is in progress.
C30_NoOppositePair ==
    lpc = "send" =>
        /\ ~({ "climate_turn_on", "climate_set_temperature" }
                \subseteq RecommendedActions(recommendations))
        /\ ~({ "infotainment_play", "infotainment_set_volume" }
                \subseteq RecommendedActions(recommendations))

C31_EveryAttemptCounts ==
    /\ (lpc = "send" /\ lpc' # lpc /\ recommendations # << >>) =>
           /\ lpc' = "count"
           /\ delivered' \in { delivered, delivered + 1 }
    /\ (lpc = "count" /\ lpc' # lpc) => recommendations_sent' = recommendations_sent + 1
    /\ recommendations_sent = MAX_RECOMMENDATIONS_PER_SESSION =>
           UNCHANGED << recommendations_sent, delivered >>

C31_CapBounds ==
    /\ recommendations_sent <= MAX_RECOMMENDATIONS_PER_SESSION
    /\ lpc = "done" => recommendations_sent = MAX_RECOMMENDATIONS_PER_SESSION

\* C31 (as claimed): recommendations_sent counts the publishes the loop attempts: every
\* cycle with a non-empty result adds 1 to it, delivered or not, so the messages
\* delivered are at most recommendations_sent in every state, and a refused publish
\* uses up one of the 50 of the cap.
C31_CountsAttempts ==
    /\ [](delivered <= recommendations_sent /\ C31_CapBounds)
    /\ [][C31_EveryAttemptCounts]_vars

\* C31 (amended): the same, with the messages delivered at most recommendations_sent
\* in every state but the one between the publish of a cycle and its count (line 261),
\* where they are at most one more.
C31_CountsAttemptsAfterPublish ==
    /\ []( /\ lpc # "count" => delivered <= recommendations_sent
           /\ lpc = "count" => delivered <= recommendations_sent + 1
           /\ C31_CapBounds )
    /\ [][C31_EveryAttemptCounts]_vars

\* C31 witness: the loop has stopped at the cap of 50 with fewer than 50 messages
\* delivered.
C31_Witness ==
    /\ lpc = "done"
    /\ recommendations_sent = MAX_RECOMMENDATIONS_PER_SESSION
    /\ delivered < MAX_RECOMMENDATIONS_PER_SESSION
    /\ delivered >= 1

\* Every hour datetime.now().hour can give.
DayHours == 0..23

\* recs respects the gate of the lighting rule at that hour and with those lights.
LightingGated(recs, hour, lights_on) ==
    /\ "lights_turn_on" \in RecommendedActions(recs) =>
           ((hour >= 18 \/ hour <= 6) /\ ~lights_on)
    /\ "lights_turn_off" \in RecommendedActions(recs) =>
           (hour \in 7..17 /\ lights_on)
    /\ ~({ "lights_turn_on", "lights_turn_off" } \subseteq RecommendedActions(recs))

\* What the generator returns on the state it is called in, at every hour of the day,
\* when no other thread writes during the pass.
C32_OnState ==
    lpc = "generate" =>
      \A hour \in DayHours :
        LightingGated(GenerateRecommendations(car_state, driver_preferences,
                                              action_history, hour),
                      hour, car_state.lights_on)

\* A generation pass of the loop: the list holds no lighting recommendation before the
\* lighting rule, and what that rule appends respects the gate at the hour and with the
\* lights it reads; the list never holds both.
C32_OnPass ==
    /\ (lpc = "rules" /\ gi <= 5) =>
           RecommendedActions(recommendations) \cap RuleActions(5) = {}
    /\ (lpc = "rules" /\ gi = 5 /\ gi' = 6) =>
           LightingGated(recommendations', current_hour', car_state.lights_on)
    /\ ~(RuleActions(5) \subseteq RecommendedActions(recommendations'))

\* C32: lights_turn_on is recommended only at an hour >= 18 or <= 6 with the lights
\* off, lights_turn_off only at an hour in 7..17 with the lights on, and no result
\* holds both.
C32_LightingByHour == []C32_OnState /\ [][C32_OnPass]_vars

\* C32 witness: a pass at hour 17 with the lights on has returned lights_turn_off.
C32_Witness ==
    /\ lpc = "send"
    /\ hpc = "idle"
    /\ current_hour = 17
    /\ car_state.lights_on
    /\ "lights_turn_off" \in RecommendedActions(recommendations)

====
